---- MODULE Spec2Model ----
(***************************************************************************)
(* The dispute lifecycle engine of GuardianAI                              *)
(* (src/modules/dispute/dispute_handler.py): the in-memory store           *)
(* DisputeHandler.disputes, the wall clock read by datetime.now(), and one *)
(* action per method of DisputeHandler.  Every method is a coroutine that  *)
(* never suspends, so one call is one atomic step.                         *)
(***************************************************************************)
EXTENDS Integers, Sequences, FiniteSets, TLC

VARIABLES
    disputes,   \* self.disputes: dispute_id -> dispute record
    order,      \* insertion order of the keys of self.disputes (dict order)
    now,        \* the wall clock, in ticks: the last value datetime.now() gave
    caller_data, \* the dict a caller passes as arbitration_data: its items
    holders      \* the disputes whose arbitration_data is that very dict

vars == <<disputes, order, now, caller_data, holders>>

\* What a call returns is no state of the handler: for each method M the
\* operator M_result gives the value the call returns.

----------------------------------------------------------------------------
(* Bounds of the model. *)

\* The clock stops at this tick.
MaxClock == 1
\* Clock ticks per second: int(datetime.now().timestamp()) drops the fraction.
TicksPerSec == 1
\* A call that appends to a history is made only while the histories of the
\* store hold fewer than this many audit entries together.
MaxEntries == 4

(* Program constants. *)
ARBITRATION_PERIOD_DAYS == 7
SecondsPerDay == 86400

----------------------------------------------------------------------------
(* Values. *)

\* Python's None where a string is expected, and where a dict is expected.
None == "None"
NoneDict == [none |-> TRUE]
\* The empty dict {}.
EmptyDict == [x \in {} |-> x]

DisputeStatus == [PENDING |-> "pending", ARBITRATION |-> "arbitration",
                  SETTLEMENT |-> "settlement", RESOLVED |-> "resolved",
                  REJECTED |-> "rejected"]

ArbitrationMethod == [DAO_VOTING |-> "dao_voting",
                      SINGLE_ARBITER |-> "single_arbiter",
                      EXPERT_PANEL |-> "expert_panel"]

\* An argument that is either an Enum member or a raw value.
EnumArg(v) == [enum |-> TRUE, value |-> v]
RawArg(v) == [enum |-> FALSE, value |-> v]

\* x.value if isinstance(x, Enum) else x
value_of(x) == x.value

\* str(x) inside an f-string: "DisputeStatus.PENDING" for a member, the raw
\* string otherwise.
format_arg(cls, x) == IF x.enum THEN <<cls, x.value>> ELSE <<x.value>>

\* Python truthiness of a string-or-None value, and of a dict-or-None value.
truthy(s) == s \notin {None, ""}
truthy_dict(d) == d # NoneDict /\ DOMAIN d # {}

(* Inputs the calls are made with: a few argument tuples for each method. *)
\* The caller's dict before it has been passed to initiate_arbitration.
CallerDict == [panel |-> "p1"]
Addresses == {"0xA", "0xB"}

\* <<creator_address, token_id, infringement_data, respondent_address>>
CreateArgs == {<<"0xA", 1, "scan1", None>>,
               <<"0xB", 1, "scan2", "0xA">>}
\* <<status, actor_address, details>>
UpdateStatusArgs == {<<EnumArg(DisputeStatus.REJECTED), "0xA", None>>,
                     <<RawArg("bogus"), "0xB", "note">>}
\* <<method, actor_address, arbitration_data>>
\* arbitration_data is None, or the dict the caller keeps and passes again.
ArbitrationArgs == {<<EnumArg(ArbitrationMethod.DAO_VOTING), "0xA", NoneDict>>,
                    <<RawArg(""), "0xB", caller_data>>}
\* actor_address of freeze_asset and of unfreeze_asset
FreezeActors == {"0xA"}
UnfreezeActors == {"0xA"}
\* <<proposer_address, settlement_terms>>
SettlementArgs == {<<"0xA", "eth2">>}
\* <<responder_address, accepted>>
RespondArgs == {<<"0xB", TRUE>>, <<"0xB", FALSE>>}
\* <<resolver_address, resolution_type, resolution_details>>
ResolveArgs == {<<"0xB", "arbitration", "award">>}

\* address of get_active_disputes; None is no filter.
ActiveArgs == Addresses \cup {None}

\* A dispute_id that create_dispute never makes: no call passes token_id 9.
MissingId == <<9, 0>>

----------------------------------------------------------------------------
(* The clock. *)

\* The values the n datetime.now() calls of one method call give.  The clock
\* ticks at most once between the last read of the previous call and the last
\* read of this one, and the tick may fall before any of the n reads.
clock_reads(n) ==
    LET hi == IF now < MaxClock THEN now + 1 ELSE now
    IN  {[i \in 1 .. n |-> IF i < k THEN now ELSE hi] : k \in 1 .. n + 1}

\* int(datetime.now().timestamp())
epoch_seconds(t) == t \div TicksPerSec

\* datetime.now() + timedelta(days = n)
plus_days(t, n) == t + n * SecondsPerDay * TicksPerSec

----------------------------------------------------------------------------
(* The store. *)

total_entries ==
    LET RECURSIVE sum(_)
        sum(S) == IF S = {} THEN 0
                  ELSE LET i == CHOOSE x \in S : TRUE
                       IN  Len(disputes[i].history) + sum(S \ {i})
    IN  sum(DOMAIN disputes)

\* self.disputes[dispute_id] = d
store_put(id, d) ==
    [i \in DOMAIN disputes \cup {id} |-> IF i = id THEN d ELSE disputes[i]]

\* The key order after self.disputes[dispute_id] = d: a new key goes last, an
\* existing key keeps its place.
order_put(id) == IF id \in DOMAIN disputes THEN order ELSE Append(order, id)

history_entry(action, timestamp, actor, details) ==
    [action |-> action, timestamp |-> timestamp, actor |-> actor,
     details |-> details]

\* not_found with the flag of a successful call.
not_found_reports_success(dispute_id) ==
    [success |-> TRUE, error |-> <<"Dispute ", dispute_id, " not found">>]

not_found(dispute_id) ==
    [success |-> FALSE, error |-> <<"Dispute ", dispute_id, " not found">>]

----------------------------------------------------------------------------
(* Dictionaries. *)

\* d[k] = v on a dict d
dict_set(d, k, v) == [x \in DOMAIN d \cup {k} |-> IF x = k THEN v ELSE d[x]]

----------------------------------------------------------------------------
(* create_dispute *)

\* f"dispute_{token_id}_{int(datetime.now().timestamp())}"
make_dispute_id(token_id, t) == <<token_id, epoch_seconds(t)>>

\* new_dispute with the respondent as the actor of the first history entry.
new_dispute_respondent_actor(creator_address, token_id, infringement_data, respondent_address, ts) ==
    [dispute_id |-> make_dispute_id(token_id, ts[1]),
     creator_address |-> creator_address,
     token_id |-> token_id,
     respondent_address |-> respondent_address,
     infringement_data |-> infringement_data,
     status |-> DisputeStatus.PENDING,
     created_at |-> ts[2],
     updated_at |-> ts[3],
     resolution |-> NoneDict,
     arbitration_method |-> None,
     arbitration_data |-> NoneDict,
     settlement_offer |-> NoneDict,
     freeze_status |-> FALSE,
     history |-> <<history_entry("dispute_created", ts[4], respondent_address,
                     <<"Dispute created based on infringement detection">>)>>]

\* The dispute record create_dispute builds; ts are its four clock reads.
new_dispute(creator_address, token_id, infringement_data, respondent_address, ts) ==
    [dispute_id |-> make_dispute_id(token_id, ts[1]),
     creator_address |-> creator_address,
     token_id |-> token_id,
     respondent_address |-> respondent_address,
     infringement_data |-> infringement_data,
     status |-> DisputeStatus.PENDING,
     created_at |-> ts[2],
     updated_at |-> ts[3],
     resolution |-> NoneDict,
     arbitration_method |-> None,
     arbitration_data |-> NoneDict,
     settlement_offer |-> NoneDict,
     freeze_status |-> FALSE,
     history |-> <<history_entry("dispute_created", ts[4], creator_address,
                     <<"Dispute created based on infringement detection">>)>>]

\* What create_dispute returns after storing dispute.
create_dispute_result(dispute) ==
    [success |-> TRUE,
     dispute_id |-> dispute.dispute_id,
     status |-> dispute.status,
     created_at |-> dispute.created_at]

create_dispute(creator_address, token_id, infringement_data, respondent_address) ==
    \E ts \in clock_reads(4) :
        LET dispute == new_dispute(creator_address, token_id, infringement_data,
                                   respondent_address, ts)
            dispute_id == dispute.dispute_id
        IN  /\ dispute_id \notin DOMAIN disputes => total_entries < MaxEntries
            /\ disputes' = store_put(dispute_id, dispute)
            /\ order' = order_put(dispute_id)
            /\ now' = ts[4]
            /\ holders' = holders \ {dispute_id}
            /\ UNCHANGED caller_data

----------------------------------------------------------------------------
(* get_dispute *)

get_dispute_result(dispute_id) ==
    IF dispute_id \in DOMAIN disputes
    THEN disputes[dispute_id]
    ELSE not_found(dispute_id)

\* get_dispute that stamps the dispute it returns.
get_dispute_touches(dispute_id) ==
    IF dispute_id \notin DOMAIN disputes
    THEN UNCHANGED <<disputes, order, now, caller_data, holders>>
    ELSE \E ts \in clock_reads(1) :
            /\ disputes' = store_put(dispute_id,
                               [disputes[dispute_id] EXCEPT !.updated_at = ts[1]])
            /\ now' = ts[1]
            /\ UNCHANGED <<order, caller_data, holders>>

get_dispute(dispute_id) ==
    UNCHANGED <<disputes, order, now, caller_data, holders>>

----------------------------------------------------------------------------
(* update_dispute_status *)

\* ts are the two clock reads: updated_at, then the entry's timestamp.
\* update_dispute_status_effect that withdraws the settlement offer as well.
update_dispute_status_effect_drops_offer(d, status, actor_address, details, ts) ==
    [d EXCEPT
        !.status = value_of(status),
        !.settlement_offer = NoneDict,
        !.updated_at = ts[1],
        !.history = Append(@, history_entry("status_updated", ts[2], actor_address,
                        IF truthy(details) THEN <<details>>
                        ELSE <<"Status updated to ">> \o format_arg("DisputeStatus", status)))]

update_dispute_status_effect(d, status, actor_address, details, ts) ==
    [d EXCEPT
        !.status = value_of(status),
        !.updated_at = ts[1],
        !.history = Append(@, history_entry("status_updated", ts[2], actor_address,
                        IF truthy(details) THEN <<details>>
                        ELSE <<"Status updated to ">> \o format_arg("DisputeStatus", status)))]

update_dispute_status_result(dispute_id, status, actor_address, details, ts) ==
    IF dispute_id \notin DOMAIN disputes THEN not_found(dispute_id)
    ELSE LET d == update_dispute_status_effect(disputes[dispute_id], status,
                                               actor_address, details, ts)
         IN  [success |-> TRUE, dispute_id |-> dispute_id,
              status |-> d.status, updated_at |-> d.updated_at]

update_dispute_status(dispute_id, status, actor_address, details) ==
    IF dispute_id \notin DOMAIN disputes
    THEN UNCHANGED <<disputes, order, now, caller_data, holders>>
    ELSE /\ total_entries < MaxEntries
         /\ \E ts \in clock_reads(2) :
             LET d == update_dispute_status_effect(disputes[dispute_id], status,
                                                   actor_address, details, ts)
             IN  /\ disputes' = store_put(dispute_id, d)
                 /\ now' = ts[2]
         /\ UNCHANGED <<order, caller_data, holders>>

----------------------------------------------------------------------------
(* freeze_asset, unfreeze_asset *)

\* freeze_asset_effect that leaves updated_at as it was.
freeze_asset_effect_stale(d, actor_address, ts) ==
    [d EXCEPT
        !.freeze_status = TRUE,
        !.history = Append(@, history_entry("asset_frozen", ts[2], actor_address,
                        <<"Asset frozen during dispute resolution">>))]

\* freeze_asset_effect that flips the flag instead of setting it.
freeze_asset_effect_toggles(d, actor_address, ts) ==
    [d EXCEPT
        !.freeze_status = ~@,
        !.updated_at = ts[1],
        !.history = Append(@, history_entry("asset_frozen", ts[2], actor_address,
                        <<"Asset frozen during dispute resolution">>))]

freeze_asset_effect(d, actor_address, ts) ==
    [d EXCEPT
        !.freeze_status = TRUE,
        !.updated_at = ts[1],
        !.history = Append(@, history_entry("asset_frozen", ts[2], actor_address,
                        <<"Asset frozen during dispute resolution">>))]

freeze_asset_result(dispute_id, actor_address, ts) ==
    IF dispute_id \notin DOMAIN disputes THEN not_found(dispute_id)
    ELSE LET d == freeze_asset_effect(disputes[dispute_id], actor_address, ts)
         IN  [success |-> TRUE, dispute_id |-> dispute_id,
              freeze_status |-> TRUE, updated_at |-> d.updated_at]

freeze_asset(dispute_id, actor_address) ==
    IF dispute_id \notin DOMAIN disputes
    THEN UNCHANGED <<disputes, order, now, caller_data, holders>>
    ELSE /\ total_entries < MaxEntries
         /\ \E ts \in clock_reads(2) :
             LET d == freeze_asset_effect(disputes[dispute_id], actor_address, ts)
             IN  /\ disputes' = store_put(dispute_id, d)
                 /\ now' = ts[2]
         /\ UNCHANGED <<order, caller_data, holders>>

\* unfreeze_asset_effect without its history entry.
unfreeze_asset_effect_silent(d, actor_address, ts) ==
    [d EXCEPT !.freeze_status = FALSE, !.updated_at = ts[1]]

\* unfreeze_asset_effect that logs the unfreeze and leaves the flag as it was.
unfreeze_asset_effect_keeps_flag(d, actor_address, ts) ==
    [d EXCEPT
        !.updated_at = ts[1],
        !.history = Append(@, history_entry("asset_unfrozen", ts[2], actor_address,
                        <<"Asset unfrozen after dispute resolution">>))]

unfreeze_asset_effect(d, actor_address, ts) ==
    [d EXCEPT
        !.freeze_status = FALSE,
        !.updated_at = ts[1],
        !.history = Append(@, history_entry("asset_unfrozen", ts[2], actor_address,
                        <<"Asset unfrozen after dispute resolution">>))]

unfreeze_asset_result(dispute_id, actor_address, ts) ==
    IF dispute_id \notin DOMAIN disputes THEN not_found(dispute_id)
    ELSE LET d == unfreeze_asset_effect(disputes[dispute_id], actor_address, ts)
         IN  [success |-> TRUE, dispute_id |-> dispute_id,
              freeze_status |-> FALSE, updated_at |-> d.updated_at]

unfreeze_asset(dispute_id, actor_address) ==
    IF dispute_id \notin DOMAIN disputes
    THEN UNCHANGED <<disputes, order, now, caller_data, holders>>
    ELSE /\ total_entries < MaxEntries
         /\ \E ts \in clock_reads(2) :
             LET d == unfreeze_asset_effect(disputes[dispute_id], actor_address, ts)
             IN  /\ disputes' = store_put(dispute_id, d)
                 /\ now' = ts[2]
         /\ UNCHANGED <<order, caller_data, holders>>

----------------------------------------------------------------------------
(* initiate_arbitration *)

\* ts are the four clock reads: updated_at, start_date, end_date, timestamp.
initiate_arbitration_effect(d, method, actor_address, arbitration_data, ts) ==
    LET data0 == IF truthy_dict(arbitration_data) THEN arbitration_data ELSE EmptyDict
        data1 == dict_set(data0, "start_date", ts[2])
        data2 == dict_set(data1, "end_date", plus_days(ts[3], ARBITRATION_PERIOD_DAYS))
    IN  [d EXCEPT
            !.arbitration_method = value_of(method),
            !.arbitration_data = data2,
            !.status = DisputeStatus.ARBITRATION,
            !.updated_at = ts[1],
            !.history = Append(@, history_entry("arbitration_initiated", ts[4],
                            actor_address,
                            <<"Arbitration initiated using ">>
                                \o format_arg("ArbitrationMethod", method)
                                \o <<" method">>))]

initiate_arbitration_result(dispute_id, method, actor_address, arbitration_data, ts) ==
    IF dispute_id \notin DOMAIN disputes THEN not_found(dispute_id)
    ELSE LET d == initiate_arbitration_effect(disputes[dispute_id], method,
                                              actor_address, arbitration_data, ts)
         IN  [success |-> TRUE, dispute_id |-> dispute_id,
              arbitration_method |-> d.arbitration_method,
              arbitration_data |-> d.arbitration_data,
              status |-> d.status, updated_at |-> d.updated_at]

\* The argument is the caller's dict object: `arbitration_data or {}` keeps a
\* non-empty dict as the object it is, and a new dict is made otherwise.
is_caller_dict(arbitration_data) ==
    truthy_dict(arbitration_data) /\ arbitration_data = caller_data

\* The store after the call: the dispute of the call is d, and every other
\* dispute that holds the caller's dict sees the start_date and end_date the
\* call wrote into it; nothing else of those disputes changes.
store_put_shared(dispute_id, d, arbitration_data) ==
    [i \in DOMAIN disputes |->
        IF i = dispute_id THEN d
        ELSE IF is_caller_dict(arbitration_data) /\ i \in holders
        THEN [disputes[i] EXCEPT !.arbitration_data = d.arbitration_data]
        ELSE disputes[i]]

initiate_arbitration(dispute_id, method, actor_address, arbitration_data) ==
    IF dispute_id \notin DOMAIN disputes
    THEN UNCHANGED <<disputes, order, now, caller_data, holders>>
    ELSE /\ total_entries < MaxEntries
         /\ \E ts \in clock_reads(4) :
             LET d == initiate_arbitration_effect(disputes[dispute_id], method,
                                                  actor_address, arbitration_data, ts)
             IN  /\ disputes' = store_put_shared(dispute_id, d, arbitration_data)
                 /\ caller_data' = IF is_caller_dict(arbitration_data)
                                   THEN d.arbitration_data ELSE caller_data
                 /\ holders' = IF is_caller_dict(arbitration_data)
                               THEN holders \cup {dispute_id}
                               ELSE holders \ {dispute_id}
                 /\ now' = ts[4]
         /\ UNCHANGED order

----------------------------------------------------------------------------
(* propose_settlement *)

\* propose_settlement_effect that writes the new offer over the fields of the
\* old one.
propose_settlement_effect_merges(d, proposer_address, settlement_terms, ts) ==
    LET old == IF d.settlement_offer = NoneDict THEN EmptyDict
               ELSE d.settlement_offer
        o1 == dict_set(old, "proposer", proposer_address)
        o2 == dict_set(o1, "terms", settlement_terms)
        o3 == dict_set(o2, "proposed_at", ts[1])
    IN  [d EXCEPT
            !.settlement_offer = dict_set(o3, "status", "pending"),
            !.status = DisputeStatus.SETTLEMENT,
            !.updated_at = ts[2],
            !.history = Append(@, history_entry("settlement_proposed", ts[3],
                            proposer_address, <<"Settlement proposed">>))]

\* ts are the three clock reads: proposed_at, updated_at, timestamp.
propose_settlement_effect(d, proposer_address, settlement_terms, ts) ==
    [d EXCEPT
        !.settlement_offer = [proposer |-> proposer_address,
                              terms |-> settlement_terms,
                              proposed_at |-> ts[1],
                              status |-> "pending"],
        !.status = DisputeStatus.SETTLEMENT,
        !.updated_at = ts[2],
        !.history = Append(@, history_entry("settlement_proposed", ts[3],
                        proposer_address, <<"Settlement proposed">>))]

propose_settlement_result(dispute_id, proposer_address, settlement_terms, ts) ==
    IF dispute_id \notin DOMAIN disputes THEN not_found(dispute_id)
    ELSE LET d == propose_settlement_effect(disputes[dispute_id], proposer_address,
                                            settlement_terms, ts)
         IN  [success |-> TRUE, dispute_id |-> dispute_id,
              settlement_offer |-> d.settlement_offer,
              status |-> d.status, updated_at |-> d.updated_at]

propose_settlement(dispute_id, proposer_address, settlement_terms) ==
    IF dispute_id \notin DOMAIN disputes
    THEN UNCHANGED <<disputes, order, now, caller_data, holders>>
    ELSE /\ total_entries < MaxEntries
         /\ \E ts \in clock_reads(3) :
             LET d == propose_settlement_effect(disputes[dispute_id],
                                                proposer_address, settlement_terms, ts)
             IN  /\ disputes' = store_put(dispute_id, d)
                 /\ now' = ts[3]
         /\ UNCHANGED <<order, caller_data, holders>>

----------------------------------------------------------------------------
(* respond_to_settlement *)

no_offer == [success |-> FALSE,
             error |-> <<"No settlement offer found for this dispute">>]

\* not self.disputes[dispute_id].get("settlement_offer")
has_no_offer(d) == ~truthy_dict(d.settlement_offer)

\* fallback_status that rejects the dispute with the settlement.
fallback_status_rejected(d) ==
    IF truthy(d.arbitration_method) THEN DisputeStatus.ARBITRATION
    ELSE DisputeStatus.REJECTED

\* The status a rejected settlement falls back to:
\* if self.disputes[dispute_id].get("arbitration_method")
fallback_status(d) ==
    IF truthy(d.arbitration_method) THEN DisputeStatus.ARBITRATION
    ELSE DisputeStatus.PENDING

\* respond_to_settlement_effect that leaves the status alone on acceptance.
respond_to_settlement_effect_keeps_status(d, responder_address, accepted, ts) ==
    LET offer1 == dict_set(d.settlement_offer, "status",
                           IF accepted THEN "accepted" ELSE "rejected")
        offer2 == dict_set(offer1, "responded_at", ts[1])
        offer3 == dict_set(offer2, "responder", responder_address)
        d1 == [d EXCEPT !.settlement_offer = offer3]
        d2 == IF accepted
              THEN [d1 EXCEPT
                       !.resolution = [type |-> "settlement",
                                       terms |-> offer3.terms,
                                       resolved_at |-> ts[2]]]
              ELSE [d1 EXCEPT !.status = fallback_status(d1)]
    IN  [d2 EXCEPT
            !.updated_at = ts[Len(ts) - 1],
            !.history = Append(@, history_entry("settlement_response", ts[Len(ts)],
                            responder_address,
                            <<"Settlement ", IF accepted THEN "accepted"
                                             ELSE "rejected">>))]

\* respond_to_settlement_effect that records the responder and leaves the
\* status of the offer as it was.
respond_to_settlement_effect_offer_pending(d, responder_address, accepted, ts) ==
    LET offer2 == dict_set(d.settlement_offer, "responded_at", ts[1])
        offer3 == dict_set(offer2, "responder", responder_address)
        d1 == [d EXCEPT !.settlement_offer = offer3]
        d2 == IF accepted
              THEN [d1 EXCEPT
                       !.status = DisputeStatus.RESOLVED,
                       !.resolution = [type |-> "settlement",
                                       terms |-> offer3.terms,
                                       resolved_at |-> ts[2]]]
              ELSE [d1 EXCEPT !.status = fallback_status(d1)]
    IN  [d2 EXCEPT
            !.updated_at = ts[Len(ts) - 1],
            !.history = Append(@, history_entry("settlement_response", ts[Len(ts)],
                            responder_address,
                            <<"Settlement ", IF accepted THEN "accepted"
                                             ELSE "rejected">>))]

\* respond_to_settlement_effect whose accepted branch records the four-field
\* resolution of resolve_dispute, the responder as resolver.
respond_to_settlement_effect_resolver_shape(d, responder_address, accepted, ts) ==
    LET offer1 == dict_set(d.settlement_offer, "status",
                           IF accepted THEN "accepted" ELSE "rejected")
        offer2 == dict_set(offer1, "responded_at", ts[1])
        offer3 == dict_set(offer2, "responder", responder_address)
        d1 == [d EXCEPT !.settlement_offer = offer3]
        d2 == IF accepted
              THEN [d1 EXCEPT
                       !.status = DisputeStatus.RESOLVED,
                       !.resolution = [type |-> "settlement",
                                       details |-> offer3.terms,
                                       resolver |-> responder_address,
                                       resolved_at |-> ts[2]]]
              ELSE [d1 EXCEPT !.status = fallback_status(d1)]
    IN  [d2 EXCEPT
            !.updated_at = ts[Len(ts) - 1],
            !.history = Append(@, history_entry("settlement_response", ts[Len(ts)],
                            responder_address,
                            <<"Settlement ", IF accepted THEN "accepted"
                                             ELSE "rejected">>))]

\* ts are the clock reads: responded_at, resolved_at (only when accepted),
\* updated_at, timestamp.
respond_to_settlement_effect(d, responder_address, accepted, ts) ==
    LET offer1 == dict_set(d.settlement_offer, "status",
                           IF accepted THEN "accepted" ELSE "rejected")
        offer2 == dict_set(offer1, "responded_at", ts[1])
        offer3 == dict_set(offer2, "responder", responder_address)
        d1 == [d EXCEPT !.settlement_offer = offer3]
        d2 == IF accepted
              THEN [d1 EXCEPT
                       !.status = DisputeStatus.RESOLVED,
                       !.resolution = [type |-> "settlement",
                                       terms |-> offer3.terms,
                                       resolved_at |-> ts[2]]]
              ELSE [d1 EXCEPT !.status = fallback_status(d1)]
    IN  [d2 EXCEPT
            !.updated_at = ts[Len(ts) - 1],
            !.history = Append(@, history_entry("settlement_response", ts[Len(ts)],
                            responder_address,
                            <<"Settlement ", IF accepted THEN "accepted"
                                             ELSE "rejected">>))]

respond_to_settlement_result(dispute_id, responder_address, accepted, ts) ==
    IF dispute_id \notin DOMAIN disputes THEN not_found(dispute_id)
    ELSE IF has_no_offer(disputes[dispute_id]) THEN no_offer
    ELSE LET d == respond_to_settlement_effect(disputes[dispute_id],
                                               responder_address, accepted, ts)
         IN  [success |-> TRUE, dispute_id |-> dispute_id,
              settlement_status |-> d.settlement_offer.status,
              dispute_status |-> d.status, updated_at |-> d.updated_at]

\* respond_to_settlement that records the response before it looks for the offer.
respond_to_settlement_logs_first(dispute_id, responder_address, accepted) ==
    IF dispute_id \notin DOMAIN disputes
    THEN UNCHANGED <<disputes, order, now, caller_data, holders>>
    ELSE /\ total_entries < MaxEntries
         /\ \E ts \in clock_reads(IF accepted THEN 4 ELSE 3) :
             LET d0 == disputes[dispute_id]
                 d == IF has_no_offer(d0)
                      THEN [d0 EXCEPT !.history = Append(@,
                               history_entry("settlement_response", ts[Len(ts)],
                                   responder_address,
                                   <<"Settlement ", IF accepted THEN "accepted"
                                                    ELSE "rejected">>))]
                      ELSE respond_to_settlement_effect(d0, responder_address,
                                                        accepted, ts)
             IN  /\ disputes' = store_put(dispute_id, d)
                 /\ now' = ts[Len(ts)]
         /\ UNCHANGED <<order, caller_data, holders>>

respond_to_settlement(dispute_id, responder_address, accepted) ==
    IF dispute_id \notin DOMAIN disputes
    THEN UNCHANGED <<disputes, order, now, caller_data, holders>>
    ELSE IF has_no_offer(disputes[dispute_id])
    THEN UNCHANGED <<disputes, order, now, caller_data, holders>>
    ELSE /\ total_entries < MaxEntries
         /\ \E ts \in clock_reads(IF accepted THEN 4 ELSE 3) :
             LET d == respond_to_settlement_effect(disputes[dispute_id],
                                                   responder_address, accepted, ts)
             IN  /\ disputes' = store_put(dispute_id, d)
                 /\ now' = ts[Len(ts)]
         /\ UNCHANGED <<order, caller_data, holders>>

----------------------------------------------------------------------------
(* resolve_dispute *)

\* resolve_dispute_record whose resolution does not name the resolver.
resolve_dispute_record_no_resolver(d, resolver_address, resolution_type, resolution_details, ts) ==
    [d EXCEPT
        !.resolution = [type |-> resolution_type,
                        details |-> resolution_details,
                        resolved_at |-> ts[1]],
        !.status = DisputeStatus.RESOLVED,
        !.updated_at = ts[2],
        !.history = Append(@, history_entry("dispute_resolved", ts[3],
                        resolver_address,
                        <<"Dispute resolved via ", resolution_type>>))]

\* resolve_dispute_record that writes back a history read before the other
\* calls ran: the entry is appended to the history as it was at creation.
resolve_dispute_record_stale(d, resolver_address, resolution_type, resolution_details, ts) ==
    [d EXCEPT
        !.resolution = [type |-> resolution_type,
                        details |-> resolution_details,
                        resolver |-> resolver_address,
                        resolved_at |-> ts[1]],
        !.status = DisputeStatus.RESOLVED,
        !.updated_at = ts[2],
        !.history = <<d.history[1],
                      history_entry("dispute_resolved", ts[3], resolver_address,
                          <<"Dispute resolved via ", resolution_type>>)>>]

\* The part of resolve_dispute before its check of freeze_status; ts are the
\* clock reads: resolved_at, updated_at, timestamp.
resolve_dispute_record(d, resolver_address, resolution_type, resolution_details, ts) ==
    [d EXCEPT
        !.resolution = [type |-> resolution_type,
                        details |-> resolution_details,
                        resolver |-> resolver_address,
                        resolved_at |-> ts[1]],
        !.status = DisputeStatus.RESOLVED,
        !.updated_at = ts[2],
        !.history = Append(@, history_entry("dispute_resolved", ts[3],
                        resolver_address,
                        <<"Dispute resolved via ", resolution_type>>))]

\* resolve_dispute_effect that leaves a frozen asset frozen.
resolve_dispute_effect_no_unfreeze(d, resolver_address, resolution_type, resolution_details, ts) ==
    resolve_dispute_record(d, resolver_address, resolution_type,
                           resolution_details, ts)

\* resolve_dispute_effect whose unfreeze is stamped with the time resolved_at
\* was read at.
resolve_dispute_effect_stale_clock(d, resolver_address, resolution_type, resolution_details, ts) ==
    LET d1 == resolve_dispute_record(d, resolver_address, resolution_type,
                                     resolution_details, ts)
    IN  IF d1.freeze_status
        THEN unfreeze_asset_effect(d1, resolver_address, <<ts[1], ts[1]>>)
        ELSE d1

\* The whole call: when the asset was frozen, unfreeze_asset runs too, with the
\* clock reads ts[4], ts[5].
resolve_dispute_effect(d, resolver_address, resolution_type, resolution_details, ts) ==
    LET d1 == resolve_dispute_record(d, resolver_address, resolution_type,
                                     resolution_details, ts)
    IN  IF d1.freeze_status
        THEN unfreeze_asset_effect(d1, resolver_address, <<ts[4], ts[5]>>)
        ELSE d1

\* resolve_dispute_result of a handler that refuses to resolve a dispute twice.
resolve_dispute_result_guarded(dispute_id, resolver_address, resolution_type, resolution_details, ts) ==
    IF dispute_id \notin DOMAIN disputes THEN not_found(dispute_id)
    ELSE IF disputes[dispute_id].status = DisputeStatus.RESOLVED
    THEN [success |-> FALSE, error |-> <<"Dispute ", dispute_id, " already resolved">>]
    ELSE LET d == resolve_dispute_effect(disputes[dispute_id], resolver_address,
                                         resolution_type, resolution_details, ts)
         IN  [success |-> TRUE, dispute_id |-> dispute_id,
              resolution |-> d.resolution,
              status |-> d.status, updated_at |-> d.updated_at]

resolve_dispute_result(dispute_id, resolver_address, resolution_type, resolution_details, ts) ==
    IF dispute_id \notin DOMAIN disputes THEN not_found(dispute_id)
    ELSE LET d == resolve_dispute_effect(disputes[dispute_id], resolver_address,
                                         resolution_type, resolution_details, ts)
         IN  [success |-> TRUE, dispute_id |-> dispute_id,
              resolution |-> d.resolution,
              status |-> d.status, updated_at |-> d.updated_at]

\* resolve_dispute that gives up control before the unfreeze of a frozen asset:
\* the step ends with the 'dispute_resolved' entry appended.
resolve_dispute_suspends(dispute_id, resolver_address, resolution_type, resolution_details) ==
    IF dispute_id \notin DOMAIN disputes
    THEN UNCHANGED <<disputes, order, now, caller_data, holders>>
    ELSE /\ total_entries < MaxEntries
         /\ \E ts \in clock_reads(3) :
             LET d == resolve_dispute_record(disputes[dispute_id], resolver_address,
                                             resolution_type, resolution_details, ts)
             IN  /\ disputes' = store_put(dispute_id, d)
                 /\ now' = ts[Len(ts)]
         /\ UNCHANGED <<order, caller_data, holders>>

\* The call is one step: the method has no point at which it gives up control
\* (its one await, of unfreeze_asset, runs the callee to its end), so no other
\* task runs between its first assignment and its return.
resolve_dispute(dispute_id, resolver_address, resolution_type, resolution_details) ==
    IF dispute_id \notin DOMAIN disputes
    THEN UNCHANGED <<disputes, order, now, caller_data, holders>>
    ELSE /\ total_entries < MaxEntries
         /\ \E ts \in clock_reads(IF disputes[dispute_id].freeze_status
                                  THEN 5 ELSE 3) :
             LET d == resolve_dispute_effect(disputes[dispute_id], resolver_address,
                                             resolution_type, resolution_details, ts)
             IN  /\ disputes' = store_put(dispute_id, d)
                 /\ now' = ts[Len(ts)]
         /\ UNCHANGED <<order, caller_data, holders>>

----------------------------------------------------------------------------
(* get_active_disputes, get_dispute_history *)

\* is_active that counts 'rejected' as closed, like 'resolved'.
is_active_not_closed(d, address) ==
    /\ d.status \notin {DisputeStatus.RESOLVED, DisputeStatus.REJECTED}
    /\ \/ address = None
       \/ d.creator_address = address
       \/ d.respondent_address = address

is_active(d, address) ==
    /\ d.status # DisputeStatus.RESOLVED
    /\ \/ address = None
       \/ d.creator_address = address
       \/ d.respondent_address = address

active_disputes(address) ==
    LET ids == SelectSeq(order, LAMBDA id : is_active(disputes[id], address))
    IN  [k \in 1 .. Len(ids) |-> disputes[ids[k]]]

get_active_disputes_result(address) == active_disputes(address)

get_active_disputes(address) ==
    UNCHANGED <<disputes, order, now, caller_data, holders>>

get_dispute_history_result(dispute_id) ==
    IF dispute_id \in DOMAIN disputes
    THEN disputes[dispute_id].history
    ELSE not_found(dispute_id)

get_dispute_history(dispute_id) ==
    UNCHANGED <<disputes, order, now, caller_data, holders>>

----------------------------------------------------------------------------
(* handle_dispute *)

KnownActions ==
    {"create", "get", "update_status", "freeze", "unfreeze", "arbitrate",
     "propose_settlement", "respond_to_settlement", "resolve", "get_active",
     "get_history"}

\* The keys handle_dispute reads with kwargs[key] for an action, in the order
\* it reads them.
required_keys(action) ==
    CASE action = "create" ->
             <<"creator_address", "token_id", "infringement_data">>
      [] action \in {"get", "get_history"} -> <<"dispute_id">>
      [] action = "update_status" -> <<"dispute_id", "status", "actor_address">>
      [] action \in {"freeze", "unfreeze"} -> <<"dispute_id", "actor_address">>
      [] action = "arbitrate" -> <<"dispute_id", "method", "actor_address">>
      [] action = "propose_settlement" ->
             <<"dispute_id", "proposer_address", "settlement_terms">>
      [] action = "respond_to_settlement" ->
             <<"dispute_id", "responder_address", "accepted">>
      [] action = "resolve" ->
             <<"dispute_id", "resolver_address", "resolution_type",
               "resolution_details">>
      [] OTHER -> <<>>

\* The positions of the keys kwargs[key] does not find.
missing_keys(action, kwargs) ==
    {i \in 1 .. Len(required_keys(action)) :
        required_keys(action)[i] \notin DOMAIN kwargs}

\* What the caller sees when kwargs[key] raises: the first missing key.
key_error(action, kwargs) ==
    LET i == CHOOSE k \in missing_keys(action, kwargs) :
                 \A j \in missing_keys(action, kwargs) : k <= j
    IN  [raised |-> <<"KeyError", required_keys(action)[i]>>]

\* kwargs.get that never finds the key.
kwargs_get_absent(kwargs, key, none) == none

\* kwargs.get(key): the value under the key, None when the bag has no such key
\* (none is None for a string argument, NoneDict for a dict argument).
kwargs_get(kwargs, key, none) ==
    IF key \in DOMAIN kwargs THEN kwargs[key] ELSE none

\* unknown_action that reports the action as done.
unknown_action_reports_success(action) ==
    [success |-> TRUE, error |-> <<"Unknown action: ", action>>]

unknown_action(action) ==
    [success |-> FALSE, error |-> <<"Unknown action: ", action>>]

\* The number of datetime.now() calls the method behind an action makes when it
\* succeeds.
clock_reads_of(action, kwargs) ==
    CASE action = "create" -> 4
      [] action \in {"update_status", "freeze", "unfreeze"} -> 2
      [] action = "arbitrate" -> 4
      [] action = "propose_settlement" -> 3
      [] action = "respond_to_settlement" ->
             IF "accepted" \in DOMAIN kwargs /\ kwargs["accepted"] THEN 4 ELSE 3
      [] action = "resolve" ->
             IF /\ "dispute_id" \in DOMAIN kwargs
                /\ kwargs["dispute_id"] \in DOMAIN disputes
                /\ disputes[kwargs["dispute_id"]].freeze_status
             THEN 5 ELSE 3
      [] OTHER -> 0

\* What handle_dispute returns; ts are the clock reads of the method it calls.
handle_dispute_result(action, kwargs, ts) ==
    IF missing_keys(action, kwargs) # {} THEN key_error(action, kwargs)
    ELSE CASE action = "create" ->
             create_dispute_result(
                 new_dispute(kwargs["creator_address"], kwargs["token_id"],
                             kwargs["infringement_data"],
                             kwargs_get(kwargs, "respondent_address", None), ts))
      [] action = "get" -> get_dispute_result(kwargs["dispute_id"])
      [] action = "update_status" ->
             update_dispute_status_result(
                 kwargs["dispute_id"], kwargs["status"], kwargs["actor_address"],
                 kwargs_get(kwargs, "details", None), ts)
      [] action = "freeze" ->
             freeze_asset_result(kwargs["dispute_id"], kwargs["actor_address"], ts)
      [] action = "unfreeze" ->
             unfreeze_asset_result(kwargs["dispute_id"], kwargs["actor_address"], ts)
      [] action = "arbitrate" ->
             initiate_arbitration_result(
                 kwargs["dispute_id"], kwargs["method"], kwargs["actor_address"],
                 kwargs_get(kwargs, "arbitration_data", NoneDict), ts)
      [] action = "propose_settlement" ->
             propose_settlement_result(
                 kwargs["dispute_id"], kwargs["proposer_address"],
                 kwargs["settlement_terms"], ts)
      [] action = "respond_to_settlement" ->
             respond_to_settlement_result(
                 kwargs["dispute_id"], kwargs["responder_address"],
                 kwargs["accepted"], ts)
      [] action = "resolve" ->
             resolve_dispute_result(
                 kwargs["dispute_id"], kwargs["resolver_address"],
                 kwargs["resolution_type"], kwargs["resolution_details"], ts)
      [] action = "get_active" ->
             get_active_disputes_result(kwargs_get(kwargs, "address", None))
      [] action = "get_history" ->
             get_dispute_history_result(kwargs["dispute_id"])
      [] OTHER -> unknown_action(action)

handle_dispute(action, kwargs) ==
    IF missing_keys(action, kwargs) # {}
    THEN UNCHANGED <<disputes, order, now, caller_data, holders>>
    ELSE CASE action = "create" ->
             create_dispute(kwargs["creator_address"], kwargs["token_id"],
                            kwargs["infringement_data"],
                            kwargs_get(kwargs, "respondent_address", None))
      [] action = "get" -> get_dispute(kwargs["dispute_id"])
      [] action = "update_status" ->
             update_dispute_status(
                 kwargs["dispute_id"], kwargs["status"], kwargs["actor_address"],
                 kwargs_get(kwargs, "details", None))
      [] action = "freeze" ->
             freeze_asset(kwargs["dispute_id"], kwargs["actor_address"])
      [] action = "unfreeze" ->
             unfreeze_asset(kwargs["dispute_id"], kwargs["actor_address"])
      [] action = "arbitrate" ->
             initiate_arbitration(
                 kwargs["dispute_id"], kwargs["method"], kwargs["actor_address"],
                 kwargs_get(kwargs, "arbitration_data", NoneDict))
      [] action = "propose_settlement" ->
             propose_settlement(kwargs["dispute_id"], kwargs["proposer_address"],
                                kwargs["settlement_terms"])
      [] action = "respond_to_settlement" ->
             respond_to_settlement(kwargs["dispute_id"],
                                   kwargs["responder_address"], kwargs["accepted"])
      [] action = "resolve" ->
             resolve_dispute(kwargs["dispute_id"], kwargs["resolver_address"],
                             kwargs["resolution_type"],
                             kwargs["resolution_details"])
      [] action = "get_active" ->
             get_active_disputes(kwargs_get(kwargs, "address", None))
      [] action = "get_history" -> get_dispute_history(kwargs["dispute_id"])
      [] OTHER -> UNCHANGED <<disputes, order, now, caller_data, holders>>

----------------------------------------------------------------------------
(* The handler. *)

\* DisputeHandler(): an empty store.
empty_store ==
    /\ disputes = [i \in {} |-> i]
    /\ order = <<>>
    /\ now = 0

\* The handler is new and the caller's dict has not been passed to it.
Init ==
    /\ empty_store
    /\ caller_data = CallerDict
    /\ holders = {}

\* The dispute ids the calls are made with: every stored one and a missing one.
CallIds == DOMAIN disputes \cup {MissingId}

\* The calls of the methods, <<action, args>>: the action handle_dispute knows
\* the method by, and the arguments in the order of the method's parameters.
TypedCalls ==
    {<<"create", x>> : x \in CreateArgs}
    \cup {<<"get", <<id>>>> : id \in CallIds}
    \cup {<<"update_status", <<id>> \o x>> : id \in CallIds, x \in UpdateStatusArgs}
    \cup {<<"freeze", <<id, a>>>> : id \in CallIds, a \in FreezeActors}
    \cup {<<"unfreeze", <<id, a>>>> : id \in CallIds, a \in UnfreezeActors}
    \cup {<<"arbitrate", <<id>> \o x>> : id \in CallIds, x \in ArbitrationArgs}
    \cup {<<"propose_settlement", <<id>> \o x>> :
             id \in CallIds, x \in SettlementArgs}
    \cup {<<"respond_to_settlement", <<id>> \o x>> :
             id \in CallIds, x \in RespondArgs}
    \cup {<<"resolve", <<id>> \o x>> : id \in CallIds, x \in ResolveArgs}
    \cup {<<"get_active", <<a>>>> : a \in ActiveArgs}
    \cup {<<"get_history", <<id>>>> : id \in CallIds}

\* The key handle_dispute reads with kwargs.get for an action, if it reads one,
\* and what the method takes when the key is absent.
optional_key(action) ==
    CASE action = "create" -> <<"respondent_address">>
      [] action = "update_status" -> <<"details">>
      [] action = "arbitrate" -> <<"arbitration_data">>
      [] action = "get_active" -> <<"address">>
      [] OTHER -> <<>>

absent(action) == IF action = "arbitrate" THEN NoneDict ELSE None

\* The keyword arguments of a call, and the bags a caller may pass for it: a
\* parameter left at its default may be left out of the bag.
kwargs_of(call) ==
    LET keys == required_keys(call[1]) \o optional_key(call[1])
    IN  [k \in {keys[i] : i \in 1 .. Len(keys)} |->
            call[2][CHOOSE i \in 1 .. Len(keys) : keys[i] = k]]

bags_of(call) ==
    LET kwargs == kwargs_of(call)
        opt == optional_key(call[1])
    IN  IF opt # <<>> /\ kwargs[opt[1]] = absent(call[1])
        THEN {kwargs, [k \in DOMAIN kwargs \ {opt[1]} |-> kwargs[k]]}
        ELSE {kwargs}

\* Actions handle_dispute does not know, and bags that come with them.
UnknownActions == {"delete", ""}

\* The dispute ids handle_dispute is called with: the dispute stored last and a
\* missing one.
DispatchIds ==
    (IF order = <<>> THEN {} ELSE {order[Len(order)]}) \cup {MissingId}

StrayBags ==
    {<<>>} \cup {[dispute_id |-> id, actor_address |-> "0xA"] : id \in DispatchIds}

\* The calls handle_dispute is made with, <<action, kwargs>>: one bag for each
\* known action and each of these ids, an unknown action, and a known action
\* with an empty bag.
DispatchCalls ==
    {<<"create", [creator_address |-> "0xA", token_id |-> 1,
                  infringement_data |-> "scan1"]>>}
    \cup {<<"get", [dispute_id |-> id]>> : id \in DispatchIds}
    \cup {<<"update_status",
            [dispute_id |-> id, status |-> RawArg("bogus"),
             actor_address |-> "0xB", details |-> "note"]>> : id \in DispatchIds}
    \cup {<<a, [dispute_id |-> id, actor_address |-> "0xA"]>> :
             a \in {"freeze", "unfreeze"}, id \in DispatchIds}
    \cup {<<"arbitrate",
            [dispute_id |-> id, method |-> EnumArg(ArbitrationMethod.DAO_VOTING),
             actor_address |-> "0xA"]>> : id \in DispatchIds}
    \cup {<<"propose_settlement",
            [dispute_id |-> id, proposer_address |-> "0xA",
             settlement_terms |-> "eth2"]>> : id \in DispatchIds}
    \cup {<<"respond_to_settlement",
            [dispute_id |-> id, responder_address |-> "0xB",
             accepted |-> TRUE]>> : id \in DispatchIds}
    \cup {<<"resolve",
            [dispute_id |-> id, resolver_address |-> "0xB",
             resolution_type |-> "arbitration",
             resolution_details |-> "award"]>> : id \in DispatchIds}
    \cup {<<"get_active", [address |-> "0xA"]>>}
    \cup {<<"get_history", [dispute_id |-> id]>> : id \in DispatchIds}
    \cup {<<a, kwargs>> : a \in UnknownActions, kwargs \in StrayBags}
    \cup {<<"get", <<>>>>}

Next ==
    \/ \E x \in CreateArgs : create_dispute(x[1], x[2], x[3], x[4])
    \/ \E id \in CallIds : get_dispute(id)
    \/ \E id \in CallIds, x \in UpdateStatusArgs :
          update_dispute_status(id, x[1], x[2], x[3])
    \/ \E id \in CallIds, a \in FreezeActors : freeze_asset(id, a)
    \/ \E id \in CallIds, a \in UnfreezeActors : unfreeze_asset(id, a)
    \/ \E id \in CallIds, x \in ArbitrationArgs :
          initiate_arbitration(id, x[1], x[2], x[3])
    \/ \E id \in CallIds, x \in SettlementArgs :
          propose_settlement(id, x[1], x[2])
    \/ \E id \in CallIds, x \in RespondArgs :
          respond_to_settlement(id, x[1], x[2])
    \/ \E id \in CallIds, x \in ResolveArgs :
          resolve_dispute(id, x[1], x[2], x[3])
    \/ \E a \in ActiveArgs : get_active_disputes(a)
    \/ \E id \in CallIds : get_dispute_history(id)
    \/ \E c \in DispatchCalls : handle_dispute(c[1], c[2])

Spec == Init /\ [][Next]_vars

----------------------------------------------------------------------------
(* Vocabulary of the properties. *)

IsPrefix(s, t) == Len(s) <= Len(t) /\ SubSeq(t, 1, Len(s)) = s

Last(s) == s[Len(s)]

actions_of(h) == [k \in 1 .. Len(h) |-> h[k].action]

\* Some create_dispute call makes this step.
create_step == \E x \in CreateArgs : create_dispute(x[1], x[2], x[3], x[4])

----------------------------------------------------------------------------
(* C1 *)

\* C1: whatever the store holds and whatever the arguments, create_dispute
\* returns success with status "pending", and the store then holds under the
\* returned dispute_id a dispute with status "pending", freeze_status false,
\* resolution, arbitration_method, arbitration_data and settlement_offer all
\* None, and a history of exactly one entry, with action "dispute_created" and
\* actor creator_address.
C1_CreateStoresFreshPendingDispute ==
    [][\A x \in CreateArgs : create_dispute(x[1], x[2], x[3], x[4]) =>
         \A ts \in clock_reads(4) :
            LET dispute == new_dispute(x[1], x[2], x[3], x[4], ts)
                r == create_dispute_result(dispute)
            IN  (/\ now' = ts[4]
                 /\ disputes' = store_put(dispute.dispute_id, dispute)) =>
                /\ r.success
                /\ r.status = "pending"
                /\ r.dispute_id \in DOMAIN disputes'
                /\ LET d == disputes'[r.dispute_id]
                   IN  /\ d.status = "pending"
                       /\ d.freeze_status = FALSE
                       /\ d.resolution = NoneDict
                       /\ d.arbitration_method = None
                       /\ d.arbitration_data = NoneDict
                       /\ d.settlement_offer = NoneDict
                       /\ Len(d.history) = 1
                       /\ d.history[1].action = "dispute_created"
                       /\ d.history[1].actor = x[1]]_vars

\* A store of two disputes, one just created by "0xB" and one that has moved on.
C1_Witness ==
    \E i, j \in DOMAIN disputes :
        /\ i # j
        /\ Len(disputes[i].history) = 1
        /\ disputes[i].history[1].actor = "0xB"
        /\ disputes[i].respondent_address = "0xA"
        /\ disputes[i].status = "pending"
        /\ Len(disputes[j].history) > 1

----------------------------------------------------------------------------
(* C2 *)

\* C2: every create_dispute call returns a dispute_id that no dispute of the
\* store has yet, so each call adds one dispute to the store.
C2_CreateAddsOneDispute ==
    [][create_step =>
         Cardinality(DOMAIN disputes') = Cardinality(DOMAIN disputes) + 1]_vars

----------------------------------------------------------------------------
(* C3 *)

\* C3: the history of a dispute is append-only: over every step of the handler,
\* create_dispute calls included, every dispute_id of the store stays in the
\* store, and the history stored under it before the step is a prefix of the
\* history stored under it after.
C3_HistoryAppendOnly ==
    [][\A id \in DOMAIN disputes :
         /\ id \in DOMAIN disputes'
         /\ IsPrefix(disputes[id].history, disputes'[id].history)]_vars

----------------------------------------------------------------------------
(* C4 *)

\* The step is a call of one of the six methods that append one entry, made on
\* dispute id and successful.
one_entry_step(id) ==
    \/ \E x \in UpdateStatusArgs : update_dispute_status(id, x[1], x[2], x[3])
    \/ \E a \in FreezeActors : freeze_asset(id, a)
    \/ \E a \in UnfreezeActors : unfreeze_asset(id, a)
    \/ \E x \in ArbitrationArgs : initiate_arbitration(id, x[1], x[2], x[3])
    \/ \E x \in SettlementArgs : propose_settlement(id, x[1], x[2])
    \/ /\ ~has_no_offer(disputes[id])
       /\ \E x \in RespondArgs : respond_to_settlement(id, x[1], x[2])

resolve_step(id) ==
    \E x \in ResolveArgs : resolve_dispute(id, x[1], x[2], x[3])

\* C4: a successful update_dispute_status, freeze_asset, unfreeze_asset,
\* initiate_arbitration, propose_settlement or respond_to_settlement on a stored
\* dispute makes its history one entry longer; resolve_dispute makes it one
\* entry longer when freeze_status was false and two when it was true.  So the
\* length after N such calls is 1 + N + the resolve_dispute calls made frozen.
C4_EntriesPerMutation ==
    [][\A id \in DOMAIN disputes :
         /\ one_entry_step(id) =>
                Len(disputes'[id].history) = Len(disputes[id].history) + 1
         /\ resolve_step(id) =>
                Len(disputes'[id].history) = Len(disputes[id].history)
                    + (IF disputes[id].freeze_status THEN 2 ELSE 1)]_vars

\* The example the specification gives: create, arbitrate, propose, accept.
C4_Witness ==
    \E id \in DOMAIN disputes :
        /\ actions_of(disputes[id].history) =
               <<"dispute_created", "arbitration_initiated",
                 "settlement_proposed", "settlement_response">>
        /\ disputes[id].status = "resolved"

----------------------------------------------------------------------------
(* C5 *)

\* What each method that takes a dispute_id returns for dispute id, for every
\* choice of its other arguments.
results_for(id) ==
    {get_dispute_result(id), get_dispute_history_result(id)}
    \cup {update_dispute_status_result(id, x[1], x[2], x[3], ts) :
             x \in UpdateStatusArgs, ts \in clock_reads(2)}
    \cup {freeze_asset_result(id, a, ts) : a \in FreezeActors, ts \in clock_reads(2)}
    \cup {unfreeze_asset_result(id, a, ts) :
             a \in UnfreezeActors, ts \in clock_reads(2)}
    \cup {initiate_arbitration_result(id, x[1], x[2], x[3], ts) :
             x \in ArbitrationArgs, ts \in clock_reads(4)}
    \cup {propose_settlement_result(id, x[1], x[2], ts) :
             x \in SettlementArgs, ts \in clock_reads(3)}
    \cup {respond_to_settlement_result(id, x[1], x[2], ts) :
             x \in RespondArgs, ts \in clock_reads(4)}
    \cup {resolve_dispute_result(id, x[1], x[2], x[3], ts) :
             x \in ResolveArgs, ts \in clock_reads(5)}

\* Some method that takes a dispute_id is called with id in this step.
call_step(id) ==
    \/ get_dispute(id)
    \/ get_dispute_history(id)
    \/ \E x \in UpdateStatusArgs : update_dispute_status(id, x[1], x[2], x[3])
    \/ \E a \in FreezeActors : freeze_asset(id, a)
    \/ \E a \in UnfreezeActors : unfreeze_asset(id, a)
    \/ \E x \in ArbitrationArgs : initiate_arbitration(id, x[1], x[2], x[3])
    \/ \E x \in SettlementArgs : propose_settlement(id, x[1], x[2])
    \/ \E x \in RespondArgs : respond_to_settlement(id, x[1], x[2])
    \/ \E x \in ResolveArgs : resolve_dispute(id, x[1], x[2], x[3])

not_found_results ==
    \A id \in CallIds \ DOMAIN disputes :
        \A r \in results_for(id) :
            /\ DOMAIN r = {"success", "error"}
            /\ r.success = FALSE
            /\ r = not_found(id)

\* C5: each of the nine methods that take a dispute_id, called with an id that
\* is not in the store, returns success = false with the not-found error, and
\* the call leaves the store as it was: no dispute added, none changed.
\* (The results are examined in the state each step leads to, and in the state it
\* leaves when that is the empty store: every reachable state is one of these.)
C5_NotFoundGuard ==
    [][/\ order = <<>> => not_found_results
       /\ not_found_results'
       /\ \A id \in CallIds \ DOMAIN disputes :
              call_step(id) => UNCHANGED <<disputes, order>>]_vars

\* A store that holds a dispute with a settlement under way while the id the
\* calls are made with is missing.
C5_Witness ==
    /\ MissingId \notin DOMAIN disputes
    /\ \E id \in DOMAIN disputes :
           /\ disputes[id].status = "settlement"
           /\ disputes[id].freeze_status
    /\ \A r \in results_for(MissingId) : r.success = FALSE

----------------------------------------------------------------------------
(* C6 *)

\* What respond_to_settlement returns for dispute id, for every choice of its
\* other arguments.
respond_results_for(id) ==
    {respond_to_settlement_result(id, x[1], x[2], ts) :
         x \in RespondArgs, ts \in clock_reads(4)}

no_offer_results ==
    \A id \in DOMAIN disputes :
        disputes[id].settlement_offer = NoneDict =>
            \A r \in respond_results_for(id) :
                /\ r.success = FALSE
                /\ r.error = <<"No settlement offer found for this dispute">>

\* C6: respond_to_settlement on a stored dispute whose settlement_offer is null
\* fails with the no-offer error, and the call changes nothing: status, offer,
\* resolution and history of the dispute stay as they were.
\* (The results are examined in the state each step leads to: every reachable
\* state that stores a dispute is one of these.)
C6_RespondNeedsOffer ==
    [][/\ no_offer_results'
       /\ \A id \in DOMAIN disputes :
              (/\ disputes[id].settlement_offer = NoneDict
               /\ \E x \in RespondArgs : respond_to_settlement(id, x[1], x[2]))
              => UNCHANGED <<disputes, order>>]_vars

\* A dispute that went to arbitration and was frozen, never offered a settlement.
C6_Witness ==
    \E id \in DOMAIN disputes :
        /\ disputes[id].settlement_offer = NoneDict
        /\ disputes[id].status = "arbitration"
        /\ disputes[id].freeze_status
        /\ \A r \in respond_results_for(id) : r = no_offer

----------------------------------------------------------------------------
(* C7 *)

\* C7: respond_to_settlement(accepted = true) on a dispute that holds a proposed
\* offer sets the status to 'resolved' and the offer's status to 'accepted', and
\* records a resolution of type 'settlement' whose terms are the offer's terms.
C7_AcceptResolves ==
    [][\A id \in DOMAIN disputes :
         \A x \in RespondArgs :
            (/\ x[2]
             /\ ~has_no_offer(disputes[id])
             /\ respond_to_settlement(id, x[1], x[2]))
            => LET d == disputes'[id]
               IN  /\ d.status = "resolved"
                   /\ d.settlement_offer.status = "accepted"
                   /\ d.resolution # NoneDict
                   /\ d.resolution.type = "settlement"
                   /\ d.resolution.terms = disputes[id].settlement_offer.terms
                   /\ d.resolution.terms \in {x2[2] : x2 \in SettlementArgs}]_vars

\* A dispute whose last call was the acceptance of its offer.
C7_Witness ==
    \E id \in DOMAIN disputes :
        LET d == disputes[id]
        IN  /\ d.status = "resolved"
            /\ d.settlement_offer # NoneDict
            /\ d.settlement_offer.status = "accepted"
            /\ d.resolution # NoneDict
            /\ d.resolution.type = "settlement"
            /\ Last(d.history).action = "settlement_response"
            /\ Len(d.history) = 3

----------------------------------------------------------------------------
(* C8 *)

\* C8: respond_to_settlement(accepted = false) on a dispute that holds an offer
\* sets the offer's status to 'rejected', sets the status to 'arbitration' when
\* arbitration_method is not null and to 'pending' when it is null, and leaves
\* the resolution as it was.
C8_RejectFallsBack ==
    [][\A id \in DOMAIN disputes :
         \A x \in RespondArgs :
            (/\ ~x[2]
             /\ ~has_no_offer(disputes[id])
             /\ respond_to_settlement(id, x[1], x[2]))
            => LET d == disputes'[id]
               IN  /\ d.settlement_offer.status = "rejected"
                   /\ d.status = IF disputes[id].arbitration_method # None
                                 THEN "arbitration" ELSE "pending"
                   /\ d.resolution = disputes[id].resolution]_vars

----------------------------------------------------------------------------
(* C9 *)

\* C9: resolve_dispute on a dispute whose status is 'pending', 'arbitration' or
\* 'settlement' sets the status to 'resolved', sets the resolution to a record
\* of exactly type, details, resolver and resolved_at, built from the call's
\* arguments and the clock, and appends a 'dispute_resolved' entry whose actor
\* is the resolver.
C9_ResolveRecordsResolution ==
    [][\A id \in DOMAIN disputes :
         \A x \in ResolveArgs :
            (/\ disputes[id].status \in {"pending", "arbitration", "settlement"}
             /\ resolve_dispute(id, x[1], x[2], x[3]))
            => LET d == disputes'[id]
                   k == Len(disputes[id].history) + 1
               IN  /\ d.status = "resolved"
                   /\ DOMAIN d.resolution =
                          {"type", "details", "resolver", "resolved_at"}
                   /\ d.resolution.type = x[2]
                   /\ d.resolution.details = x[3]
                   /\ d.resolution.resolver = x[1]
                   /\ d.resolution.resolved_at \in now .. now'
                   /\ Len(d.history) >= k
                   /\ d.history[k].action = "dispute_resolved"
                   /\ d.history[k].actor = x[1]]_vars

\* A dispute resolved while its settlement was under way.
C9_Witness ==
    \E id \in DOMAIN disputes :
        LET d == disputes[id]
        IN  /\ d.status = "resolved"
            /\ d.resolution # NoneDict
            /\ "resolver" \in DOMAIN d.resolution
            /\ actions_of(d.history) =
                   <<"dispute_created", "settlement_proposed", "dispute_resolved">>

----------------------------------------------------------------------------
(* C10 *)

\* C10: resolve_dispute on a dispute whose freeze_status is true sets it to false
\* and appends exactly two entries, 'dispute_resolved' and then 'asset_unfrozen',
\* both with the resolver as actor; on a dispute whose freeze_status is false it
\* appends only 'dispute_resolved' and freeze_status stays false.
C10_ResolveUnfreezes ==
    [][\A id \in DOMAIN disputes :
         \A x \in ResolveArgs :
            resolve_dispute(id, x[1], x[2], x[3])
            => LET d == disputes'[id]
                   h == disputes[id].history
                   n == Len(h)
               IN  /\ IsPrefix(h, d.history)
                   /\ ~d.freeze_status
                   /\ IF disputes[id].freeze_status
                      THEN /\ Len(d.history) = n + 2
                           /\ d.history[n + 1].action = "dispute_resolved"
                           /\ d.history[n + 2].action = "asset_unfrozen"
                           /\ d.history[n + 1].actor = x[1]
                           /\ d.history[n + 2].actor = x[1]
                      ELSE /\ Len(d.history) = n + 1
                           /\ d.history[n + 1].action = "dispute_resolved"]_vars

\* A dispute frozen by one address and resolved by another: the entry of the
\* unfreeze carries the resolver.
C10_Witness ==
    \E id \in DOMAIN disputes :
        LET d == disputes[id]
            n == Len(d.history)
        IN  /\ n >= 4
            /\ ~d.freeze_status
            /\ d.status = "resolved"
            /\ d.history[n - 2].action = "asset_frozen"
            /\ d.history[n - 1].action = "dispute_resolved"
            /\ d.history[n].action = "asset_unfrozen"
            /\ d.history[n].actor = d.history[n - 1].actor
            /\ d.history[n].actor # d.history[n - 2].actor

----------------------------------------------------------------------------
(* C11 *)

\* C11: on a stored dispute in any state, freeze_asset leaves freeze_status true
\* and unfreeze_asset leaves it false, whatever it was, each appending its one
\* entry; and an unfreeze_asset made after a freeze_asset leaves freeze_status
\* false with exactly the two entries 'asset_frozen', 'asset_unfrozen' appended.
C11_FreezeThenUnfreeze ==
    [][\A id \in DOMAIN disputes :
         LET h == disputes[id].history
             n == Len(h)
             d == disputes'[id]
         IN  /\ \A a \in FreezeActors :
                  freeze_asset(id, a) =>
                     /\ d.freeze_status
                     /\ d.history = Append(h, d.history[n + 1])
                     /\ d.history[n + 1].action = "asset_frozen"
                     /\ \A b \in UnfreezeActors, ts \in (clock_reads(2))' :
                           LET e == unfreeze_asset_effect(d, b, ts)
                           IN  /\ ~e.freeze_status
                               /\ Len(e.history) = n + 2
                               /\ SubSeq(e.history, 1, n) = h
                               /\ e.history[n + 1].action = "asset_frozen"
                               /\ e.history[n + 2].action = "asset_unfrozen"
             /\ \A a \in UnfreezeActors :
                  unfreeze_asset(id, a) =>
                     /\ ~d.freeze_status
                     /\ d.history = Append(h, d.history[n + 1])
                     /\ d.history[n + 1].action = "asset_unfrozen"]_vars

\* A dispute frozen, frozen again while frozen, and then unfrozen.
C11_Witness ==
    \E id \in DOMAIN disputes :
        /\ ~disputes[id].freeze_status
        /\ actions_of(disputes[id].history) =
               <<"dispute_created", "asset_frozen", "asset_frozen",
                 "asset_unfrozen">>

----------------------------------------------------------------------------
(* C12 *)

\* C12: 'resolved' and 'rejected' are terminal: a successful call of
\* update_dispute_status, freeze_asset, unfreeze_asset, initiate_arbitration,
\* propose_settlement, respond_to_settlement or resolve_dispute on a dispute
\* whose status is 'resolved' or 'rejected' leaves that status as it is.
C12_TerminalStatus ==
    [][\A id \in DOMAIN disputes :
         (/\ disputes[id].status \in {"resolved", "rejected"}
          /\ one_entry_step(id) \/ resolve_step(id))
         => disputes'[id].status = disputes[id].status]_vars

----------------------------------------------------------------------------
(* C13 *)

\* What update_dispute_status, freeze_asset, unfreeze_asset,
\* initiate_arbitration, propose_settlement and resolve_dispute return for
\* dispute id, for every choice of their other arguments.
unguarded_results_for(id) ==
    {update_dispute_status_result(id, x[1], x[2], x[3], ts) :
         x \in UpdateStatusArgs, ts \in clock_reads(2)}
    \cup {freeze_asset_result(id, a, ts) : a \in FreezeActors, ts \in clock_reads(2)}
    \cup {unfreeze_asset_result(id, a, ts) :
             a \in UnfreezeActors, ts \in clock_reads(2)}
    \cup {initiate_arbitration_result(id, x[1], x[2], x[3], ts) :
             x \in ArbitrationArgs, ts \in clock_reads(4)}
    \cup {propose_settlement_result(id, x[1], x[2], ts) :
             x \in SettlementArgs, ts \in clock_reads(3)}
    \cup {resolve_dispute_result(id, x[1], x[2], x[3], ts) :
             x \in ResolveArgs, ts \in clock_reads(5)}

\* C13: for a stored dispute in every reachable state, every call of
\* update_dispute_status, freeze_asset, unfreeze_asset, initiate_arbitration,
\* propose_settlement and resolve_dispute returns success with the value it
\* wrote; respond_to_settlement fails exactly when the dispute holds no offer,
\* and then with the no-offer error.
C13_Permissive ==
    \A id \in DOMAIN disputes :
        /\ \A r \in unguarded_results_for(id) : r.success /\ r.dispute_id = id
        /\ \A x \in UpdateStatusArgs, ts \in clock_reads(2) :
              update_dispute_status_result(id, x[1], x[2], x[3], ts).status
                  = x[1].value
        /\ \A a \in FreezeActors, ts \in clock_reads(2) :
              freeze_asset_result(id, a, ts).freeze_status
        /\ \A a \in UnfreezeActors, ts \in clock_reads(2) :
              ~unfreeze_asset_result(id, a, ts).freeze_status
        /\ \A x \in ArbitrationArgs, ts \in clock_reads(4) :
              initiate_arbitration_result(id, x[1], x[2], x[3], ts).status
                  = "arbitration"
        /\ \A x \in SettlementArgs, ts \in clock_reads(3) :
              propose_settlement_result(id, x[1], x[2], ts).status = "settlement"
        /\ \A x \in ResolveArgs, ts \in clock_reads(5) :
              resolve_dispute_result(id, x[1], x[2], x[3], ts).status = "resolved"
        /\ \A r \in respond_results_for(id) :
              IF disputes[id].settlement_offer = NoneDict
              THEN r = no_offer
              ELSE r.success

\* A resolved and frozen dispute whose offer was rejected: every call on it
\* still succeeds.
C13_Witness ==
    \E id \in DOMAIN disputes :
        /\ disputes[id].status = "resolved"
        /\ disputes[id].freeze_status
        /\ disputes[id].settlement_offer # NoneDict
        /\ \A r \in unguarded_results_for(id) \cup respond_results_for(id) :
              r.success

----------------------------------------------------------------------------
(* C14 *)

\* The position of dispute id in the insertion order of the store.
position(id) == CHOOSE k \in 1 .. Len(order) : order[k] = id

\* C14: in every state, get_active_disputes(address) returns the stored disputes
\* whose status is not 'resolved' and for which address is None or is the
\* creator or the respondent -- those in status 'rejected' too -- each once and
\* in the order in which the store received them.
C14_ActiveDisputes ==
    \A a \in ActiveArgs :
        LET r == get_active_disputes_result(a)
            wanted(d) == /\ d.status # "resolved"
                         /\ a = None \/ d.creator_address = a
                                     \/ d.respondent_address = a
        IN  /\ \A k \in 1 .. Len(r) :
                  /\ r[k].dispute_id \in DOMAIN disputes
                  /\ r[k] = disputes[r[k].dispute_id]
                  /\ wanted(r[k])
            /\ \A id \in DOMAIN disputes :
                  wanted(disputes[id]) =>
                      Cardinality({k \in 1 .. Len(r) : r[k].dispute_id = id}) = 1
            /\ \A k, l \in 1 .. Len(r) :
                  k < l => position(r[k].dispute_id) < position(r[l].dispute_id)

\* Two stored disputes, one of them rejected: both are active, and the filter by
\* address keeps one of them.
C14_Witness ==
    /\ Len(get_active_disputes_result(None)) = 2
    /\ Len(get_active_disputes_result("0xB")) = 1
    /\ \E id \in DOMAIN disputes : disputes[id].status = "rejected"

----------------------------------------------------------------------------
(* C15 *)

\* The history of d records that resolve_dispute ran or that a settlement was
\* accepted.
was_resolved(d) ==
    \E k \in 1 .. Len(d.history) :
        \/ d.history[k].action = "dispute_resolved"
        \/ /\ d.history[k].action = "settlement_response"
           /\ d.history[k].details = <<"Settlement ", "accepted">>

\* C15: a dispute that resolve_dispute or an accepted settlement has moved to
\* 'resolved' is in no later result of get_active_disputes, whatever was called
\* on it since.
C15_ResolvedStaysInactive ==
    \A id \in DOMAIN disputes :
        was_resolved(disputes[id]) =>
            \A a \in ActiveArgs :
                LET r == get_active_disputes_result(a)
                IN  \A k \in 1 .. Len(r) : r[k].dispute_id # id

----------------------------------------------------------------------------
(* C16 *)

\* C16: in every reachable state the status of every stored dispute is one of
\* pending, arbitration, settlement, resolved, rejected, whatever status
\* update_dispute_status was given, an enum member or a raw string.
C16_StatusInEnum ==
    \A id \in DOMAIN disputes :
        disputes[id].status \in {"pending", "arbitration", "settlement",
                                 "resolved", "rejected"}

----------------------------------------------------------------------------
(* C17 *)

\* C17: in every reachable state no dispute has the status 'rejected'.
C17_NeverRejected ==
    \A id \in DOMAIN disputes : disputes[id].status # "rejected"

\* The entries of the calls that write the status.
StatusActions ==
    {"dispute_created", "status_updated", "arbitration_initiated",
     "settlement_proposed", "settlement_response", "dispute_resolved"}

\* The action of the last entry of h made by a call that writes the status.
last_status_action(h) ==
    LET ks == {k \in 1 .. Len(h) : h[k].action \in StatusActions}
    IN  h[CHOOSE k \in ks : \A l \in ks : l <= k].action

\* C17, amended: only update_dispute_status moves a dispute to 'rejected': in
\* every reachable state, the status of a dispute that is 'rejected' was written
\* by update_dispute_status.
C17_RejectedOnlyByUpdate ==
    \A id \in DOMAIN disputes :
        disputes[id].status = "rejected" =>
            last_status_action(disputes[id].history) = "status_updated"

\* A dispute rejected by update_dispute_status and frozen afterwards.
C17_Witness ==
    \E id \in DOMAIN disputes :
        /\ disputes[id].status = "rejected"
        /\ actions_of(disputes[id].history) =
               <<"dispute_created", "status_updated", "asset_frozen">>

----------------------------------------------------------------------------
(* C18 *)

\* C18: initiate_arbitration on a stored dispute, from any status, sets the
\* status to 'arbitration' and arbitration_method to the given method, sets
\* arbitration_data to the data of the caller, or to an empty record, with
\* start_date the time of the call and end_date exactly
\* ARBITRATION_PERIOD_DAYS days after start_date, and appends one
\* 'arbitration_initiated' entry.
C18_InitiateArbitration ==
    [][\A id \in DOMAIN disputes :
         \A x \in ArbitrationArgs :
            initiate_arbitration(id, x[1], x[2], x[3]) =>
               LET d == disputes'[id]
                   ad == d.arbitration_data
                   given == IF x[3] = NoneDict THEN EmptyDict ELSE x[3]
                   n == Len(disputes[id].history)
               IN  /\ d.status = "arbitration"
                   /\ d.arbitration_method = x[1].value
                   /\ DOMAIN ad = DOMAIN given \cup {"start_date", "end_date"}
                   /\ \A k \in DOMAIN given \ {"start_date", "end_date"} :
                         ad[k] = given[k]
                   /\ ad.start_date \in now .. now'
                   /\ ad.end_date >= ad.start_date
                   /\ ad.end_date - ad.start_date
                         = ARBITRATION_PERIOD_DAYS * SecondsPerDay * TicksPerSec
                   /\ Len(d.history) = n + 1
                   /\ SubSeq(d.history, 1, n) = disputes[id].history
                   /\ d.history[n + 1].action = "arbitration_initiated"]_vars

----------------------------------------------------------------------------
(* C19 *)

\* C19: propose_settlement on a stored dispute, from any status, replaces
\* settlement_offer by a record of exactly proposer, terms, proposed_at and
\* status 'pending' -- no responder or responded_at of an earlier offer -- sets
\* the status to 'settlement', leaves arbitration_method and arbitration_data as
\* they were, and appends one 'settlement_proposed' entry.
C19_ProposeSettlement ==
    [][\A id \in DOMAIN disputes :
         \A x \in SettlementArgs :
            propose_settlement(id, x[1], x[2]) =>
               LET d == disputes'[id]
                   o == d.settlement_offer
                   n == Len(disputes[id].history)
               IN  /\ DOMAIN o = {"proposer", "terms", "proposed_at", "status"}
                   /\ o.proposer = x[1]
                   /\ o.terms = x[2]
                   /\ o.proposed_at \in now .. now'
                   /\ o.status = "pending"
                   /\ d.status = "settlement"
                   /\ d.arbitration_method = disputes[id].arbitration_method
                   /\ d.arbitration_data = disputes[id].arbitration_data
                   /\ Len(d.history) = n + 1
                   /\ SubSeq(d.history, 1, n) = disputes[id].history
                   /\ d.history[n + 1].action = "settlement_proposed"]_vars

\* A settlement proposed again after the first offer was rejected.
C19_Witness ==
    \E id \in DOMAIN disputes :
        /\ actions_of(disputes[id].history) =
               <<"dispute_created", "settlement_proposed",
                 "settlement_response", "settlement_proposed">>
        /\ disputes[id].settlement_offer.status = "pending"
        /\ disputes[id].status = "settlement"

----------------------------------------------------------------------------
(* C20 *)

\* C20: in every reachable state, the status of every settlement offer is one of
\* pending, accepted, rejected, and it is 'pending' exactly when the offer
\* records no responder and no responded_at.
C20_OfferStatus ==
    \A id \in DOMAIN disputes :
        LET o == disputes[id].settlement_offer
        IN  o # NoneDict =>
               /\ o.status \in {"pending", "accepted", "rejected"}
               /\ o.status = "pending" <=>
                     /\ "responder" \notin DOMAIN o
                     /\ "responded_at" \notin DOMAIN o

\* An offer first rejected and then accepted: it names its responder and is
\* not pending.
C20_Witness ==
    \E id \in DOMAIN disputes :
        /\ actions_of(disputes[id].history) =
               <<"dispute_created", "settlement_proposed",
                 "settlement_response", "settlement_response">>
        /\ disputes[id].history[3].details = <<"Settlement ", "rejected">>
        /\ disputes[id].settlement_offer.status = "accepted"
        /\ "responder" \in DOMAIN disputes[id].settlement_offer

----------------------------------------------------------------------------
(* C21 *)

\* C21: respond_to_settlement fails with the no-offer error whenever the dispute
\* holds no pending offer -- no offer at all, or one already accepted or
\* rejected -- and then changes nothing: an offer is answered at most once and
\* its status stays as it is once it is no longer 'pending'.
C21_RespondOnlyPendingOffer ==
    [][/\ \A id \in DOMAIN disputes' :
            LET o == disputes'[id].settlement_offer
            IN  (o = NoneDict \/ o.status # "pending") =>
                   \A r \in (respond_results_for(id))' : r = no_offer
       /\ \A id \in DOMAIN disputes :
            LET o == disputes[id].settlement_offer
            IN  (/\ o = NoneDict \/ o.status # "pending"
                 /\ \E x \in RespondArgs : respond_to_settlement(id, x[1], x[2]))
                => UNCHANGED <<disputes, order>>]_vars

----------------------------------------------------------------------------
(* C22 *)

ResolverFields == {"type", "details", "resolver", "resolved_at"}
SettlementFields == {"type", "terms", "resolved_at"}

\* The history entries of h written by a call that sets resolution:
\* resolve_dispute, or respond_to_settlement with accepted true.
resolving_entries(h) ==
    {k \in 1 .. Len(h) :
        \/ h[k].action = "dispute_resolved"
        \/ /\ h[k].action = "settlement_response"
           /\ h[k].details = <<"Settlement ", "accepted">>}

last_resolving_entry(h) ==
    CHOOSE k \in resolving_entries(h) : \A j \in resolving_entries(h) : j <= k

\* C22 as stated: the resolution of every stored dispute is null or a record of
\* exactly the fields type, details, resolver, resolved_at, and it is null for
\* every dispute whose history holds no 'dispute_resolved' entry.
C22_ResolutionOnlyByResolve ==
    \A id \in DOMAIN disputes :
        LET d == disputes[id]
        IN  /\ d.resolution = NoneDict \/ DOMAIN d.resolution = ResolverFields
            /\ (\A k \in 1 .. Len(d.history) :
                    d.history[k].action # "dispute_resolved")
               => d.resolution = NoneDict

\* C22, amended: the resolution of a stored dispute is null exactly when neither
\* resolve_dispute nor an accepted respond_to_settlement has succeeded on it;
\* otherwise it is what the last such call wrote -- type, details, resolver,
\* resolved_at with the resolver of the 'dispute_resolved' entry, or type
\* 'settlement', terms, resolved_at with the terms of the offer.
C22_ResolutionShape ==
    \A id \in DOMAIN disputes :
        LET d == disputes[id]
            h == d.history
        IN  IF resolving_entries(h) = {}
            THEN d.resolution = NoneDict
            ELSE LET e == h[last_resolving_entry(h)]
                 IN  IF e.action = "dispute_resolved"
                     THEN /\ DOMAIN d.resolution = ResolverFields
                          /\ d.resolution.resolver = e.actor
                          /\ e.details = <<"Dispute resolved via ", d.resolution.type>>
                     ELSE /\ DOMAIN d.resolution = SettlementFields
                          /\ d.resolution.type = "settlement"
                          /\ d.resolution.terms = d.settlement_offer.terms

\* A dispute settled by an accepted offer and resolved by resolve_dispute after
\* that: its resolution is the one resolve_dispute wrote.
C22_Witness ==
    \E id \in DOMAIN disputes :
        /\ actions_of(disputes[id].history)
             = <<"dispute_created", "settlement_proposed",
                 "settlement_response", "dispute_resolved">>
        /\ disputes[id].settlement_offer.status = "accepted"
        /\ DOMAIN disputes[id].resolution = ResolverFields

----------------------------------------------------------------------------
(* C23 *)

\* C23: handle_dispute called with an action it does not know returns success
\* False with the error 'Unknown action: <action>', whatever the bag holds, and
\* the call changes neither the store nor any dispute.
C23_UnknownAction ==
    \A a \in UnknownActions, kwargs \in StrayBags :
        LET r == handle_dispute_result(a, kwargs, <<>>)
        IN  /\ DOMAIN r = {"success", "error"}
            /\ r.success = FALSE
            /\ r.error = <<"Unknown action: ", a>>
            /\ ~ENABLED (/\ handle_dispute(a, kwargs)
                         /\ ~UNCHANGED <<disputes, order>>)

\* An unknown action called with the id of a stored dispute that has been
\* through a mutation.
C23_Witness ==
    \E id \in DOMAIN disputes :
        /\ Len(disputes[id].history) >= 2
        /\ [dispute_id |-> id, actor_address |-> "0xA"] \in StrayBags
        /\ ~handle_dispute_result("delete", [dispute_id |-> id,
                                             actor_address |-> "0xA"], <<>>).success

----------------------------------------------------------------------------
(* C24 *)

\* What the method of a call returns, called directly; ts are its clock reads.
typed_result(call, ts) ==
    LET x == call[2]
    IN  CASE call[1] = "create" ->
                 create_dispute_result(new_dispute(x[1], x[2], x[3], x[4], ts))
          [] call[1] = "get" -> get_dispute_result(x[1])
          [] call[1] = "update_status" ->
                 update_dispute_status_result(x[1], x[2], x[3], x[4], ts)
          [] call[1] = "freeze" -> freeze_asset_result(x[1], x[2], ts)
          [] call[1] = "unfreeze" -> unfreeze_asset_result(x[1], x[2], ts)
          [] call[1] = "arbitrate" ->
                 initiate_arbitration_result(x[1], x[2], x[3], x[4], ts)
          [] call[1] = "propose_settlement" ->
                 propose_settlement_result(x[1], x[2], x[3], ts)
          [] call[1] = "respond_to_settlement" ->
                 respond_to_settlement_result(x[1], x[2], x[3], ts)
          [] call[1] = "resolve" ->
                 resolve_dispute_result(x[1], x[2], x[3], x[4], ts)
          [] call[1] = "get_active" -> get_active_disputes_result(x[1])
          [] call[1] = "get_history" -> get_dispute_history_result(x[1])

\* The method of a call runs in this step, called directly.
typed_step(call) ==
    LET x == call[2]
    IN  CASE call[1] = "create" -> create_dispute(x[1], x[2], x[3], x[4])
          [] call[1] = "get" -> get_dispute(x[1])
          [] call[1] = "update_status" ->
                 update_dispute_status(x[1], x[2], x[3], x[4])
          [] call[1] = "freeze" -> freeze_asset(x[1], x[2])
          [] call[1] = "unfreeze" -> unfreeze_asset(x[1], x[2])
          [] call[1] = "arbitrate" -> initiate_arbitration(x[1], x[2], x[3], x[4])
          [] call[1] = "propose_settlement" ->
                 propose_settlement(x[1], x[2], x[3])
          [] call[1] = "respond_to_settlement" ->
                 respond_to_settlement(x[1], x[2], x[3])
          [] call[1] = "resolve" -> resolve_dispute(x[1], x[2], x[3], x[4])
          [] call[1] = "get_active" -> get_active_disputes(x[1])
          [] call[1] = "get_history" -> get_dispute_history(x[1])

\* C24: for each of the eleven actions, every store and every bag that carries
\* the arguments of the method, handle_dispute returns what the method returns,
\* and no step from the store is a step of one of handle_dispute and the method
\* called directly with those arguments and not a step of the other.
C24_FacadeEquivalent ==
    \A call \in TypedCalls : \A kwargs \in bags_of(call) :
        /\ \A ts \in clock_reads(clock_reads_of(call[1], kwargs)) :
              handle_dispute_result(call[1], kwargs, ts) = typed_result(call, ts)
        /\ ~ENABLED (handle_dispute(call[1], kwargs) /\ ~typed_step(call))
        /\ ~ENABLED (typed_step(call) /\ ~handle_dispute(call[1], kwargs))

\* A dispute created through a bag that names the respondent, then frozen and
\* resolved: the cascade of resolve_dispute is among the calls compared.
C24_Witness ==
    \E id \in DOMAIN disputes :
        /\ disputes[id].respondent_address = "0xA"
        /\ actions_of(disputes[id].history)
             = <<"dispute_created", "asset_frozen", "dispute_resolved",
                 "asset_unfrozen">>
        /\ \E kwargs \in bags_of(<<"get_active", <<None>>>>) :
              "address" \notin DOMAIN kwargs

----------------------------------------------------------------------------
(* C25 *)

IdentityFields ==
    {"dispute_id", "creator_address", "respondent_address", "token_id",
     "infringement_data", "created_at"}

\* C25: over every step of the handler, create_dispute calls included, every
\* stored dispute stays in the store and keeps its dispute_id, creator_address,
\* respondent_address, token_id, infringement_data and created_at.
C25_IdentityImmutable ==
    [][\A id \in DOMAIN disputes :
          /\ id \in DOMAIN disputes'
          /\ \A f \in IdentityFields : disputes'[id][f] = disputes[id][f]]_vars

----------------------------------------------------------------------------
(* C26 *)

\* C26: with a clock that never goes backwards, in every reachable state the
\* timestamps of the entries of every history are non-decreasing in history
\* order, the two entries of one resolve_dispute call on a frozen dispute
\* included, and created_at is not later than the timestamp of the first entry.
C26_HistoryTimestampsOrdered ==
    \A id \in DOMAIN disputes :
        LET d == disputes[id]
            h == d.history
        IN  /\ d.created_at <= h[1].timestamp
            /\ \A k \in 1 .. Len(h) - 1 : h[k].timestamp <= h[k + 1].timestamp

\* A frozen dispute resolved while the clock ticked between the two entries
\* the call appends.
C26_Witness ==
    \E id \in DOMAIN disputes :
        LET h == disputes[id].history
        IN  /\ actions_of(h) = <<"dispute_created", "asset_frozen",
                                 "dispute_resolved", "asset_unfrozen">>
            /\ h[3].timestamp < h[4].timestamp

----------------------------------------------------------------------------
(* C27 *)

\* The step is a call of one of the seven mutating methods on dispute id,
\* successful or not.
mutating_call(id) ==
    \/ \E x \in UpdateStatusArgs : update_dispute_status(id, x[1], x[2], x[3])
    \/ \E a \in FreezeActors : freeze_asset(id, a)
    \/ \E a \in UnfreezeActors : unfreeze_asset(id, a)
    \/ \E x \in ArbitrationArgs : initiate_arbitration(id, x[1], x[2], x[3])
    \/ \E x \in SettlementArgs : propose_settlement(id, x[1], x[2])
    \/ \E x \in RespondArgs : respond_to_settlement(id, x[1], x[2])
    \/ \E x \in ResolveArgs : resolve_dispute(id, x[1], x[2], x[3])

\* After a call on dispute id that appended to its history, updated_at was read
\* from the clock during the call, no earlier than its old value and than
\* created_at and no later than the timestamp of the last entry; after a call
\* that appended nothing, updated_at is what it was.
updated_at_refreshed(id) ==
    LET old == disputes[id]
        new == disputes'[id]
    IN  IF Len(new.history) > Len(old.history)
        THEN /\ now <= new.updated_at /\ new.updated_at <= now'
             /\ old.updated_at <= new.updated_at
             /\ new.created_at <= new.updated_at
             /\ new.updated_at <= Last(new.history).timestamp
        ELSE new.updated_at = old.updated_at

\* C27: no call of update_dispute_status, freeze_asset, unfreeze_asset,
\* initiate_arbitration, propose_settlement, respond_to_settlement or
\* resolve_dispute on a stored dispute ends otherwise than with updated_at
\* refreshed when it succeeded and untouched when it failed.
C27_UpdatedAtRefreshed ==
    \A id \in DOMAIN disputes :
        ~ENABLED (mutating_call(id) /\ ~updated_at_refreshed(id))

\* A dispute with no offer, so that respond_to_settlement on it fails, frozen
\* while the clock ticked between the read for updated_at and the read for the
\* entry.
C27_Witness ==
    \E id \in DOMAIN disputes :
        LET d == disputes[id]
        IN  /\ actions_of(d.history) = <<"dispute_created", "asset_frozen">>
            /\ d.updated_at < Last(d.history).timestamp
            /\ has_no_offer(d)

----------------------------------------------------------------------------
(* C28 *)

\* The number of entries of h with the given action.
count_action(h, action) ==
    Cardinality({k \in 1 .. Len(h) : h[k].action = action})

\* C28: in every reachable history, no prefix holds more 'asset_unfrozen'
\* entries than 'asset_frozen' entries, and at most one 'asset_unfrozen' entry
\* lies between two consecutive 'asset_frozen' entries.
C28_UnfreezeMatchesFreeze ==
    \A id \in DOMAIN disputes :
        LET h == disputes[id].history
        IN  /\ \A n \in 1 .. Len(h) :
                  count_action(SubSeq(h, 1, n), "asset_unfrozen")
                      <= count_action(SubSeq(h, 1, n), "asset_frozen")
            /\ \A i, j \in 1 .. Len(h) :
                  (/\ i < j
                   /\ h[i].action = "asset_frozen"
                   /\ h[j].action = "asset_frozen"
                   /\ \A k \in i + 1 .. j - 1 : h[k].action # "asset_frozen")
                  => count_action(SubSeq(h, i, j), "asset_unfrozen") <= 1

----------------------------------------------------------------------------
(* C29 *)

\* freeze_status as the first n entries of h record it: true when the last
\* 'asset_frozen' or 'asset_unfrozen' entry among them is 'asset_frozen'.
frozen_after(h, n) ==
    LET marks == {k \in 1 .. n : h[k].action \in {"asset_frozen", "asset_unfrozen"}}
    IN  /\ marks # {}
        /\ h[CHOOSE k \in marks : \A j \in marks : j <= k].action = "asset_frozen"

\* C29: no state that another task can observe lies inside a call: in every
\* reachable state the freeze_status of every dispute is the one its history
\* records, and every 'dispute_resolved' entry appended while the asset was
\* frozen is directly followed by the 'asset_unfrozen' entry of the same call.
C29_CallsAtomic ==
    \A id \in DOMAIN disputes :
        LET d == disputes[id]
            h == d.history
        IN  /\ d.freeze_status = frozen_after(h, Len(h))
            /\ \A k \in 1 .. Len(h) :
                  (h[k].action = "dispute_resolved" /\ frozen_after(h, k - 1))
                  => /\ k < Len(h)
                     /\ h[k + 1].action = "asset_unfrozen"
                     /\ h[k + 1].actor = h[k].actor

\* A frozen dispute resolved, its two entries adjacent, with a second dispute
\* in the store for other tasks to work on.
C29_Witness ==
    /\ Cardinality(DOMAIN disputes) = 2
    /\ \E id \in DOMAIN disputes :
          /\ actions_of(disputes[id].history)
               = <<"dispute_created", "asset_frozen", "dispute_resolved",
                   "asset_unfrozen">>
          /\ ~disputes[id].freeze_status

----------------------------------------------------------------------------
(* C30 *)

\* C30: get_dispute, get_active_disputes and get_dispute_history change nothing:
\* from no reachable state, for no argument, does a call of one of them end in
\* a store that differs in a dispute, a field or a history; and
\* get_dispute_history returns the entries of the dispute first appended first.
C30_ReadsHaveNoEffect ==
    /\ \A id \in CallIds :
          /\ ~ENABLED (/\ get_dispute(id)
                       /\ ~UNCHANGED <<disputes, order, now, caller_data, holders>>)
          /\ ~ENABLED (/\ get_dispute_history(id)
                       /\ ~UNCHANGED <<disputes, order, now, caller_data, holders>>)
    /\ \A a \in ActiveArgs :
          ~ENABLED (/\ get_active_disputes(a)
                    /\ ~UNCHANGED <<disputes, order, now, caller_data, holders>>)
    /\ \A id \in DOMAIN disputes :
          LET r == get_dispute_history_result(id)
          IN  /\ Len(r) = Len(disputes[id].history)
              /\ \A k \in 1 .. Len(r) : r[k] = disputes[id].history[k]
              /\ r[1].action = "dispute_created"

\* A dispute with three entries whose updated_at is later than created_at,
\* returned by all three reads.
C30_Witness ==
    \E id \in DOMAIN disputes :
        /\ actions_of(get_dispute_history_result(id))
             = <<"dispute_created", "arbitration_initiated", "settlement_proposed">>
        /\ get_dispute_result(id).created_at < get_dispute_result(id).updated_at
        /\ \E k \in 1 .. Len(get_active_disputes_result("0xA")) :
              get_active_disputes_result("0xA")[k].dispute_id = id

----------------------------------------------------------------------------
(* C31 *)

\* The history holds an entry with the given action.
has_entry(h, action) == \E k \in 1 .. Len(h) : h[k].action = action

\* arbitration_method and arbitration_data of d are both null, or both set with
\* start_date and end_date in the data, and they are set exactly when the
\* history holds an 'arbitration_initiated' entry.
arbitration_fields_agree(d) ==
    /\ (d.arbitration_method = None) <=> (d.arbitration_data = NoneDict)
    /\ (d.arbitration_method # None)
           <=> has_entry(d.history, "arbitration_initiated")
    /\ d.arbitration_data # NoneDict
           => {"start_date", "end_date"} \subseteq DOMAIN d.arbitration_data

\* C31: arbitration_method and arbitration_data are both null or both set, set
\* exactly when the history holds an 'arbitration_initiated' entry, the data
\* with start_date and end_date; over every step a dispute that has them set
\* stays in the store with them set; and a settlement rejected on a dispute with
\* a past arbitration leaves the status 'arbitration'.
C31_ArbitrationFields ==
    [][/\ \A id \in DOMAIN disputes' : arbitration_fields_agree(disputes'[id])
       /\ \A id \in DOMAIN disputes :
             disputes[id].arbitration_method # None
             => /\ id \in DOMAIN disputes'
                /\ disputes'[id].arbitration_method # None
                /\ disputes'[id].arbitration_data # NoneDict
       /\ \A id \in DOMAIN disputes :
             (/\ has_entry(disputes[id].history, "arbitration_initiated")
              /\ ~has_no_offer(disputes[id])
              /\ \E x \in RespondArgs :
                    ~x[2] /\ respond_to_settlement(id, x[1], x[2]))
             => disputes'[id].status = DisputeStatus.ARBITRATION]_vars

----------------------------------------------------------------------------
(* C32 *)

\* The calls of the seven mutating methods on dispute id.
mutating_calls(id) ==
    {call \in TypedCalls :
        /\ call[1] \in {"update_status", "freeze", "unfreeze", "arbitrate",
                        "propose_settlement", "respond_to_settlement", "resolve"}
        /\ call[2][1] = id}

\* The action of the entry a successful call appends first.
entry_action(action) ==
    CASE action = "update_status" -> "status_updated"
      [] action = "freeze" -> "asset_frozen"
      [] action = "unfreeze" -> "asset_unfrozen"
      [] action = "arbitrate" -> "arbitration_initiated"
      [] action = "propose_settlement" -> "settlement_proposed"
      [] action = "respond_to_settlement" -> "settlement_response"
      [] action = "resolve" -> "dispute_resolved"

\* The call returns success from this state.
succeeds(call) ==
    LET n == clock_reads_of(call[1], kwargs_of(call))
    IN  typed_result(call, CHOOSE ts \in clock_reads(n) : TRUE).success

\* Over the step the history of the dispute of the call keeps every entry it
\* had, in place, and when the call succeeds the entry of the call, by the
\* actor of the call, comes right after them.
keeps_entries(call) ==
    LET id == call[2][1]
        h == disputes[id].history
        g == disputes'[id].history
        actor == IF call[1] \in {"update_status", "arbitrate"}
                 THEN call[2][3] ELSE call[2][2]
    IN  /\ IsPrefix(h, g)
        /\ succeeds(call) => /\ Len(g) > Len(h)
                             /\ g[Len(h) + 1].action = entry_action(call[1])
                             /\ g[Len(h) + 1].actor = actor

\* C32: tasks run their calls one whole call after another, so the state after
\* a set of concurrent calls is the state after those calls in the order they
\* ran; and no call on a dispute loses what an earlier one wrote: from no
\* reachable state does a call of a mutating method on a stored dispute end
\* with an entry of its history gone or moved, or succeed without its own entry
\* following them.
C32_NoLostUpdate ==
    \A id \in DOMAIN disputes : \A call \in mutating_calls(id) :
        ~ENABLED (typed_step(call) /\ ~keeps_entries(call))

\* Two resolve_dispute calls on one dispute: both entries are in the history.
C32_Witness ==
    \E id \in DOMAIN disputes :
        /\ actions_of(disputes[id].history)
             = <<"dispute_created", "dispute_resolved", "dispute_resolved">>
        /\ disputes[id].status = DisputeStatus.RESOLVED

----------------------------------------------------------------------------
(* C33 *)

\* C33: in every reachable state a dispute whose status is 'resolved' is not
\* frozen.
C33_ResolvedNotFrozen ==
    \A id \in DOMAIN disputes :
        disputes[id].status = DisputeStatus.RESOLVED => ~disputes[id].freeze_status

----------------------------------------------------------------------------
(* C34 *)

\* C34: in every reachable state freeze_status is true exactly when the history
\* holds an 'asset_frozen' or 'asset_unfrozen' entry and the last of them is
\* 'asset_frozen'.
C34_FreezeAgreesWithHistory ==
    \A id \in DOMAIN disputes :
        disputes[id].freeze_status
            <=> frozen_after(disputes[id].history, Len(disputes[id].history))

\* A dispute frozen, unfrozen and frozen again.
C34_Witness ==
    \E id \in DOMAIN disputes :
        /\ actions_of(disputes[id].history)
             = <<"dispute_created", "asset_frozen", "asset_unfrozen",
                 "asset_frozen">>
        /\ disputes[id].freeze_status

----------------------------------------------------------------------------
(* C35 *)

\* C35: in every reachable state the status of a dispute is 'resolved' exactly
\* when its resolution is not null.
C35_ResolvedIffResolution ==
    \A id \in DOMAIN disputes :
        (disputes[id].status = DisputeStatus.RESOLVED)
            <=> (disputes[id].resolution # NoneDict)

----------------------------------------------------------------------------
(* C36 *)

\* C36: over every step, a call of a mutating method on one dispute leaves
\* every other stored dispute as it was, field for field, and a create_dispute
\* call leaves every dispute stored before it in the store and as it was.
C36_DisputesIsolated ==
    [][\A b \in DOMAIN disputes :
          /\ \A a \in CallIds \ {b} :
                mutating_call(a) => /\ b \in DOMAIN disputes'
                                    /\ disputes'[b] = disputes[b]
          /\ create_step => /\ b \in DOMAIN disputes'
                            /\ disputes'[b] = disputes[b]]_vars

----------------------------------------------------------------------------
(* C37 *)

\* Over the step dispute id stays stored and changes in no field but those
\* named.
changes_only(id, fields) ==
    /\ id \in DOMAIN disputes'
    /\ \A f \in DOMAIN disputes[id] \ fields : disputes'[id][f] = disputes[id][f]

\* C37: from no reachable state does freeze_asset or unfreeze_asset on a stored
\* dispute change a field other than freeze_status, updated_at and history, or
\* update_dispute_status a field other than status, updated_at and history:
\* status, resolution, arbitration_method, arbitration_data and settlement_offer,
\* and for update_dispute_status freeze_status, stay as they were.
C37_FrameOfFreezeAndUpdate ==
    \A id \in DOMAIN disputes :
        /\ \A a \in FreezeActors :
              ~ENABLED (/\ freeze_asset(id, a)
                        /\ ~changes_only(id, {"freeze_status", "updated_at",
                                              "history"}))
        /\ \A a \in UnfreezeActors :
              ~ENABLED (/\ unfreeze_asset(id, a)
                        /\ ~changes_only(id, {"freeze_status", "updated_at",
                                              "history"}))
        /\ \A x \in UpdateStatusArgs :
              ~ENABLED (/\ update_dispute_status(id, x[1], x[2], x[3])
                        /\ ~changes_only(id, {"status", "updated_at", "history"}))

\* A dispute with an offer, frozen and then given another status: the offer
\* and the flag are still there.
C37_Witness ==
    \E id \in DOMAIN disputes :
        /\ actions_of(disputes[id].history)
             = <<"dispute_created", "settlement_proposed", "asset_frozen",
                 "status_updated">>
        /\ disputes[id].settlement_offer # NoneDict
        /\ disputes[id].freeze_status
        /\ disputes[id].status # DisputeStatus.SETTLEMENT

----------------------------------------------------------------------------
(* C38 *)

\* settlement_offer of d is set exactly when the history holds a
\* 'settlement_proposed' entry, and every 'settlement_response' entry comes
\* after such an entry.
offer_agrees_with_history(d) ==
    /\ (d.settlement_offer # NoneDict) <=> has_entry(d.history, "settlement_proposed")
    /\ \A k \in 1 .. Len(d.history) :
          d.history[k].action = "settlement_response"
          => has_entry(SubSeq(d.history, 1, k - 1), "settlement_proposed")

\* C38: settlement_offer is set exactly when the history holds a
\* 'settlement_proposed' entry, every 'settlement_response' entry is preceded
\* by one, and over every step a dispute that holds an offer stays in the store
\* holding an offer.
C38_OfferNeverDisappears ==
    [][/\ \A id \in DOMAIN disputes' : offer_agrees_with_history(disputes'[id])
       /\ \A id \in DOMAIN disputes :
             disputes[id].settlement_offer # NoneDict
             => /\ id \in DOMAIN disputes'
                /\ disputes'[id].settlement_offer # NoneDict]_vars
====
